---- MODULE Spec2Model ----
(***************************************************************************)
(* KUser / KUserGroup / KUserId / KGroupId on POSIX (kuser_unix.cpp).      *)
(*                                                                         *)
(* The process environment (real and effective uid, LOGNAME, USER, HOME,   *)
(* the locale codec) and the account and group databases are the state the *)
(* library reads; ret holds what the last library call returned.  Byte     *)
(* strings (C strings) are sequences of bytes, QStrings are sequences of   *)
(* code points, a pointer is <<>> (null) or <<record>>.                    *)
(***************************************************************************)
EXTENDS Integers, Sequences, FiniteSets, TLC

VARIABLES ruid,      \* getuid()
          euid,      \* geteuid()
          environ,   \* LOGNAME, USER, HOME: <<>> (unset) or <<bytes>>
          codec,     \* the locale's codec: "UTF-8" or "ISO-8859-1"
          pwdb,      \* the account database, in getpwent() order
          grdb,      \* the group database, in getgrent() order
          ret,       \* the last call: its name, its arguments, what it returned
          pc,        \* where an enumeration call stands: "idle", "loop", "end"
          frame,     \* the running enumeration's locals
          pwent,     \* the passwd cursor: [open, pos]
          grent,     \* the group cursor: [open, pos]
          trace      \* the database calls the running (or last) enumeration made

vars == <<ruid, euid, environ, codec, pwdb, grdb, ret, pc, frame, pwent, grent, trace>>

-----------------------------------------------------------------------------
\* Bounds of the model.

\* Longest account database.
MaxUsers == 2
\* Longest group database.
MaxGroups == 2

-----------------------------------------------------------------------------
\* Native identifiers.

\* An unsigned 32-bit value (uid_t, gid_t, uint) is held as its bit pattern read
\* as a 32-bit two's complement integer: 0 .. 2^31 - 1 are themselves,
\* 2^31 .. 2^32 - 1 are -2^31 .. -1.  So 4294967295 is -1, and the casts between
\* uint and int leave the value as it is.

\* uid_t(-1) / gid_t(-1).
InvalidId == -1
\* The default maxCount of every list call.
UINT_MAX == -1
\* The bit patterns of 2^31 - 1, 2^31 and 2^31 + 1.
INT_MAX == 2147483647
Two31 == (-2147483647) - 1
Two31Plus1 == -2147483647

\* a < b on unsigned operands.
ULess(a, b) == IF (a < 0) = (b < 0) THEN a < b ELSE b < 0

-----------------------------------------------------------------------------
\* Text conversions (locale codec; code points up to U+FFFF).

IsCont(b) == b >= 128 /\ b <= 191

\* QString::fromLocal8Bit under UTF-8: malformed input becomes U+FFFD.
RECURSIVE Utf8Decode(_)
Utf8Decode(bs) ==
    IF Len(bs) = 0 THEN <<>>
    ELSE LET b == Head(bs) IN
         IF b < 128 THEN <<b>> \o Utf8Decode(Tail(bs))
         ELSE IF b >= 194 /\ b <= 223 /\ Len(bs) >= 2 /\ IsCont(bs[2])
              THEN <<(b - 192) * 64 + (bs[2] - 128)>>
                   \o Utf8Decode(SubSeq(bs, 3, Len(bs)))
         ELSE IF b >= 224 /\ b <= 239 /\ Len(bs) >= 3 /\ IsCont(bs[2]) /\ IsCont(bs[3])
                 /\ (b - 224) * 4096 + (bs[2] - 128) * 64 + (bs[3] - 128) >= 2048
              THEN <<(b - 224) * 4096 + (bs[2] - 128) * 64 + (bs[3] - 128)>>
                   \o Utf8Decode(SubSeq(bs, 4, Len(bs)))
         ELSE <<65533>> \o Utf8Decode(Tail(bs))

\* One code point in UTF-8.
Utf8Char(c) ==
    IF c < 128 THEN <<c>>
    ELSE IF c < 2048 THEN <<192 + (c \div 64), 128 + (c % 64)>>
    ELSE <<224 + (c \div 4096), 128 + ((c \div 64) % 64), 128 + (c % 64)>>

RECURSIVE Utf8Encode(_)
Utf8Encode(qs) ==
    IF Len(qs) = 0 THEN <<>> ELSE Utf8Char(Head(qs)) \o Utf8Encode(Tail(qs))

\* QString::fromLocal8Bit(const char *).
fromLocal8Bit(bs) ==
    IF codec = "UTF-8" THEN Utf8Decode(bs) ELSE bs

\* QString::toLocal8Bit(): ISO-8859-1 writes '?' for what it cannot encode.
RECURSIVE Latin1Encode(_)
Latin1Encode(qs) ==
    IF Len(qs) = 0 THEN <<>>
    ELSE <<IF Head(qs) < 256 THEN Head(qs) ELSE 63>> \o Latin1Encode(Tail(qs))

toLocal8Bit(qs) ==
    IF codec = "UTF-8" THEN Utf8Encode(qs) ELSE Latin1Encode(qs)

\* What a C function sees of a QByteArray's data(): the bytes before the first NUL.
RECURSIVE CStr(_)
CStr(bs) ==
    IF Len(bs) = 0 \/ Head(bs) = 0 THEN <<>> ELSE <<Head(bs)>> \o CStr(Tail(bs))

\* QString::split(','), empty parts kept: "" splits into one empty part.
RECURSIVE Split(_, _)
Split(qs, cur) ==
    IF Len(qs) = 0 THEN <<cur>>
    ELSE IF Head(qs) = 44 THEN <<cur>> \o Split(Tail(qs), <<>>)
    ELSE Split(Tail(qs), Append(cur, Head(qs)))

-----------------------------------------------------------------------------
\* The operating system's side.

\* qgetenv(name): the value, empty when the variable is unset.
qgetenv(name) == IF Len(environ[name]) = 0 THEN <<>> ELSE environ[name][1]

\* The first of the records at positions S of db: a lookup returns the first
\* record that matches, null when none does.
First(db, S) ==
    IF S = {} THEN <<>> ELSE <<db[CHOOSE i \in S : \A j \in S : i <= j]>>

getpwnam(name) == First(pwdb, {i \in 1..Len(pwdb) : pwdb[i].pw_name = name})
getpwuid(id) == First(pwdb, {i \in 1..Len(pwdb) : pwdb[i].pw_uid = id})
getgrnam(name) == First(grdb, {i \in 1..Len(grdb) : grdb[i].gr_name = name})
getgrgid(id) == First(grdb, {i \in 1..Len(grdb) : grdb[i].gr_gid = id})

-----------------------------------------------------------------------------
\* KUser::Private.

\* QMap<UserProperty, QVariant>, empty.
NoProperties == [k \in {} |-> <<>>]

\* Private(): uid(uid_t(-1)), gid(gid_t(-1)), everything else empty.
PrivateDefault ==
    [uid |-> InvalidId, gid |-> InvalidId, loginName |-> <<>>,
     homeDir |-> <<>>, shell |-> <<>>, properties |-> NoProperties]

\* gecosList, filled up to four entries.
RECURSIVE FillUp(_)
FillUp(l) == IF Len(l) < 4 THEN FillUp(Append(l, <<>>)) ELSE l

GecosList(gecos) == FillUp(Split(fromLocal8Bit(gecos), <<>>))

\* homeDir with the test against geteuid() left out.
HomeDirOf_realOnly(r) ==
    LET home == IF r.pw_uid = ruid THEN fromLocal8Bit(qgetenv("HOME")) ELSE <<>>
    IN IF Len(home) = 0 THEN fromLocal8Bit(r.pw_dir) ELSE home

\* homeDir: HOME for the user the process runs as, pw_dir when that is empty.
HomeDirOf(r) ==
    LET home == IF r.pw_uid = ruid /\ r.pw_uid = euid
                THEN fromLocal8Bit(qgetenv("HOME")) ELSE <<>>
    IN IF Len(home) = 0 THEN fromLocal8Bit(r.pw_dir) ELSE home

\* fillPasswd(p) on a fresh Private.
fillPasswd(p) ==
    IF Len(p) = 0 THEN PrivateDefault
    ELSE LET r == p[1]
             g == GecosList(r.pw_gecos)
         IN [uid |-> r.pw_uid, gid |-> r.pw_gid,
             loginName |-> fromLocal8Bit(r.pw_name),
             homeDir |-> HomeDirOf(r),
             shell |-> fromLocal8Bit(r.pw_shell),
             properties |-> [k \in {"FullName", "RoomNumber", "WorkPhone", "HomePhone"} |->
                               CASE k = "FullName" -> g[1]
                                 [] k = "RoomNumber" -> g[2]
                                 [] k = "WorkPhone" -> g[3]
                                 [] OTHER -> g[4]]]

\* Private(const char *name): a null name looks nothing up.
PrivateByName(name) ==
    fillPasswd(IF Len(name) = 0 THEN <<>> ELSE getpwnam(name[1]))

\* KUser(UIDMode) taking what LOGNAME or USER names without the check against getuid().
KUser_mode_unchecked(mode) ==
    IF mode = "UseEffectiveUID" /\ euid # ruid
    THEN fillPasswd(getpwuid(euid))
    ELSE LET d1 == PrivateByName(<<qgetenv("LOGNAME")>>) IN
         IF d1.uid = InvalidId
         THEN LET d2 == PrivateByName(<<qgetenv("USER")>>) IN
              IF d2.uid = InvalidId THEN fillPasswd(getpwuid(ruid)) ELSE d2
         ELSE d1

\* KUser(UIDMode).
KUser_mode(mode) ==
    IF mode = "UseEffectiveUID" /\ euid # ruid
    THEN fillPasswd(getpwuid(euid))
    ELSE LET d1 == PrivateByName(<<qgetenv("LOGNAME")>>) IN
         IF d1.uid # ruid
         THEN LET d2 == PrivateByName(<<qgetenv("USER")>>) IN
              IF d2.uid # ruid THEN fillPasswd(getpwuid(ruid)) ELSE d2
         ELSE d1

\* KUser(K_UID) and KUser(KUserId).
KUser_uid(id) == fillPasswd(getpwuid(id))

\* KUser(const QString &).
KUser_QString(name) == PrivateByName(<<CStr(toLocal8Bit(name))>>)

\* KUser(const char *).
KUser_cstr(name) == PrivateByName(name)

\* KUser(const passwd *).
KUser_passwd(p) == fillPasswd(p)

KUser_isValid(u) == u.uid # InvalidId

\* operator== comparing the uids alone.
KUser_eq_uidOnly(u, v) == u.uid = v.uid

\* KUser::operator==.
KUser_eq(u, v) == KUser_isValid(u) /\ u.uid = v.uid

\* KUser::operator!=.
KUser_ne(u, v) == ~KUser_eq(u, v)

KUser_userId(u) == [id |-> u.uid]

KUser_groupId(u) == [id |-> u.gid]

-----------------------------------------------------------------------------
\* KUserId / KGroupId (kuser.h): a native identifier, uid_t(-1) / gid_t(-1)
\* when invalid.

\* KUserId() / KGroupId().
Id_default == [id |-> InvalidId]

\* KUserId(K_UID) / KGroupId(K_GID).
Id_native(n) == [id |-> n]

Id_isValid(x) == x.id # InvalidId

\* Equal iff both invalid, or both valid and identical.
Id_eq(x, y) ==
    \/ ~Id_isValid(x) /\ ~Id_isValid(y)
    \/ Id_isValid(x) /\ Id_isValid(y) /\ x.id = y.id

Id_ne(x, y) == ~Id_eq(x, y)

\* fromName answering a failed lookup with a zeroed identifier.
KUserId_fromName_zero(name) ==
    LET p == getpwnam(CStr(toLocal8Bit(name))) IN
    IF Len(p) = 0 THEN Id_native(0) ELSE Id_native(p[1].pw_uid)

\* KUserId::fromName.
KUserId_fromName(name) ==
    LET p == getpwnam(CStr(toLocal8Bit(name))) IN
    IF Len(p) = 0 THEN Id_default ELSE Id_native(p[1].pw_uid)

\* KGroupId::fromName.
KGroupId_fromName(name) ==
    LET g == getgrnam(CStr(toLocal8Bit(name))) IN
    IF Len(g) = 0 THEN Id_default ELSE Id_native(g[1].gr_gid)

-----------------------------------------------------------------------------
\* KUserGroup::Private.

GroupDefault == [gid |-> InvalidId, name |-> <<>>, users |-> <<>>]

\* The loop over gr_mem: one KUser(const char *) per member name.
RECURSIVE MemberUsers(_)
MemberUsers(mem) ==
    IF Len(mem) = 0 THEN <<>>
    ELSE <<KUser_cstr(<<Head(mem)>>)>> \o MemberUsers(Tail(mem))

\* fillGroup(p) on a fresh Private.
fillGroup(p) ==
    IF Len(p) = 0 THEN GroupDefault
    ELSE [gid |-> p[1].gr_gid, name |-> fromLocal8Bit(p[1].gr_name),
          users |-> MemberUsers(p[1].gr_mem)]

\* KUserGroup(const ::group *).
KUserGroup_group(p) == fillGroup(p)

\* KUserGroup(K_GID) and KUserGroup(KGroupId).
KUserGroup_gid(id) == fillGroup(getgrgid(id))

\* KUserGroup(const QString &).
KUserGroup_QString(name) == fillGroup(getgrnam(CStr(toLocal8Bit(name))))

\* KUserGroup(KUser::UIDMode).
KUserGroup_mode(mode) == fillGroup(getgrgid(KUser_mode(mode).gid))

KUserGroup_isValid(g) == g.gid # InvalidId

\* (int)maxCount: the same 32 bits, read as two's complement.
ToInt(u) == u

\* QList::mid(pos, length): to the end when length is -1 or reaches past it.
QList_mid(l, pos, length) ==
    IF pos > Len(l) THEN <<>>
    ELSE LET n == IF length < 0 \/ pos + length > Len(l) THEN Len(l) - pos ELSE length
         IN SubSeq(l, pos + 1, pos + n)

\* users() calling mid(maxCount): the members from position maxCount on.
KUserGroup_users_from(g, maxCount) ==
    IF ToInt(maxCount) < 0 THEN g.users ELSE QList_mid(g.users, ToInt(maxCount), -1)

\* KUserGroup::users(maxCount).
KUserGroup_users(g, maxCount) ==
    IF ToInt(maxCount) < 0 THEN g.users ELSE QList_mid(g.users, 0, ToInt(maxCount))

\* KUserGroup::userNames(maxCount).
RECURSIVE UserNamesFrom(_, _, _)
UserNamesFrom(g, maxCount, i) ==
    IF ULess(i, Len(g.users)) /\ ULess(i, maxCount)
    THEN <<g.users[i + 1].loginName>> \o UserNamesFrom(g, maxCount, i + 1)
    ELSE <<>>

KUserGroup_userNames(g, maxCount) == UserNamesFrom(g, maxCount, 0)

-----------------------------------------------------------------------------
\* The inputs the model draws from.  Bytes: 'a' 97, 'b' 98, 'c' 99, 'x' 120,
\* 'z' 122, '/' 47, ',' 44, 's' 115; 255 is no valid UTF-8.

\* Account records: a and c share a uid, x carries uid_t(-1), the last one has
\* a name that is not valid UTF-8.
PasswdPool ==
    { [pw_name |-> <<97>>, pw_uid |-> 1000, pw_gid |-> 100,
       pw_gecos |-> <<65, 44, 49>>, pw_dir |-> <<47, 97>>, pw_shell |-> <<115>>],
      [pw_name |-> <<98>>, pw_uid |-> 0, pw_gid |-> 0,
       pw_gecos |-> <<>>, pw_dir |-> <<47>>, pw_shell |-> <<115>>],
      [pw_name |-> <<99>>, pw_uid |-> 1000, pw_gid |-> 101,
       pw_gecos |-> <<67, 44, 49, 44, 50, 44, 51, 44, 52>>, pw_dir |-> <<47, 99>>,
       pw_shell |-> <<115>>],
      [pw_name |-> <<120>>, pw_uid |-> InvalidId, pw_gid |-> InvalidId,
       pw_gecos |-> <<120>>, pw_dir |-> <<47, 120>>, pw_shell |-> <<115>>],
      [pw_name |-> <<255>>, pw_uid |-> 1001, pw_gid |-> 100,
       pw_gecos |-> <<>>, pw_dir |-> <<47, 255>>, pw_shell |-> <<>>] }

\* Group records.
GroupPool ==
    { [gr_name |-> <<103>>, gr_gid |-> 100, gr_mem |-> <<<<97>>, <<98>>, <<99>>>>],
      [gr_name |-> <<104>>, gr_gid |-> 0, gr_mem |-> <<<<122, 122>>, <<97>>>>],
      [gr_name |-> <<107>>, gr_gid |-> 101, gr_mem |-> <<>>],
      [gr_name |-> <<109>>, gr_gid |-> InvalidId, gr_mem |-> <<<<120>>, <<98>>>>] }

\* The databases of at most n records of S, no record twice.
Databases(S, n) ==
    UNION { { db \in [1..k -> S] : \A i, j \in 1..k : i # j => db[i] # db[j] } : k \in 0..n }

\* Names a caller passes as QString: empty, "a", "b", "c", "x", "zz", "g", "m",
\* "a\0b", U+00FF, U+FFFD.
QNames ==
    { <<>>, <<97>>, <<98>>, <<99>>, <<120>>, <<122, 122>>, <<103>>, <<109>>,
      <<97, 0, 98>>, <<255>>, <<65533>> }

\* Names a caller passes as const char *: null, "", "a", "b", "c", "x", "zz", "\xff".
CNames ==
    { <<>>, <<<<>>>>, <<<<97>>>>, <<<<98>>>>, <<<<99>>>>, <<<<120>>>>, <<<<122, 122>>>>,
      <<<<255>>>> }

\* Native uid / gid values a caller passes.
NativeIds == {0, 100, 1000, 1001, InvalidId}

\* Values of LOGNAME and USER: unset, "a", "b", "zz".
EnvNames == { <<>>, <<<<97>>>>, <<<<98>>>>, <<<<122, 122>>>> }

\* Values of HOME: unset, "", "/h".
EnvHomes == { <<>>, <<<<>>>>, <<<<47, 104>>>> }

UIDModes == {"UseEffectiveUID", "UseRealUserID"}

\* maxCount values: small ones, the two sides of the int range, the default.
MaxCounts == {0, 1, 2, 3, INT_MAX, Two31, Two31Plus1, UINT_MAX}

\* maxCount values for the list calls, whose loops compare it as uint only.
ListCounts == {0, 1, 2, 3, Two31, UINT_MAX}

\* The databases the list calls run over: accounts "a", "b", "c", "x", and the
\* groups with valid gids.
EnumPasswdPool == {r \in PasswdPool : r.pw_name \in {<<97>>, <<98>>, <<99>>, <<120>>}}
EnumGroupPool == {g \in GroupPool : g.gr_gid # InvalidId}

-----------------------------------------------------------------------------
\* The database cursors and the list calls.  A list call runs in steps: the
\* call opens the cursor, each step evaluates the loop condition once (and runs
\* the body when it holds), the return closes the cursor.

\* `i < maxCount` with `<=` in its place.
LoopTest_le(i, maxCount) == ~ULess(maxCount, i)

\* The first half of the loop condition, `i < maxCount` on uints.
LoopTest(i, maxCount) == ULess(i, maxCount)

\* QList<KUser>::contains(u): some element e with e == u.
QList_contains(l, u) == \E i \in 1..Len(l) : KUser_eq(l[i], u)

\* The loop of groups() stopping one match late.
RECURSIVE GroupsLoop_late(_, _, _, _)
GroupsLoop_late(all, u, maxCount, result) ==
    IF Len(all) = 0 THEN result
    ELSE IF QList_contains(KUserGroup_users(Head(all), UINT_MAX), u)
         THEN IF ULess(maxCount, Len(result)) THEN result
              ELSE GroupsLoop_late(Tail(all), u, maxCount, Append(result, Head(all)))
         ELSE GroupsLoop_late(Tail(all), u, maxCount, result)

\* The loop of KUser::groups() over the list allGroups() returned.
RECURSIVE GroupsLoop(_, _, _, _)
GroupsLoop(all, u, maxCount, result) ==
    IF Len(all) = 0 THEN result
    ELSE IF QList_contains(KUserGroup_users(Head(all), UINT_MAX), u)
         THEN IF ~ULess(Len(result), maxCount) THEN result
              ELSE GroupsLoop(Tail(all), u, maxCount, Append(result, Head(all)))
         ELSE GroupsLoop(Tail(all), u, maxCount, result)

\* The names of a list of groups.
RECURSIVE GroupNamesOf(_)
GroupNamesOf(gs) ==
    IF Len(gs) = 0 THEN <<>> ELSE <<Head(gs).name>> \o GroupNamesOf(Tail(gs))

\* The loop of KUser::groupNames(): that of groups(), appending name().
GroupNamesLoop(all, u, maxCount) == GroupNamesOf(GroupsLoop(all, u, maxCount, <<>>))

NoFrame ==
    [fn |-> "none", maxCount |-> 0, i |-> 0, result |-> <<>>,
     outer |-> "none", self |-> PrivateDefault, outerMax |-> 0]
ClosedCursor == [open |-> FALSE, pos |-> 0]

Env == <<ruid, euid, environ, codec, pwdb, grdb>>

\* Entering fn: its locals.
Enter(fn, maxCount) ==
    /\ pc = "idle"
    /\ ret.op = "none"
    /\ pc' = "loop"
    /\ frame' = [NoFrame EXCEPT !.fn = fn, !.maxCount = maxCount]
    /\ UNCHANGED <<Env, ret>>

\* setpwent().
setpwent ==
    /\ pwent' = [open |-> TRUE, pos |-> 0]
    /\ trace' = <<"setpwent">>
    /\ UNCHANGED grent

\* setgrent().
setgrent ==
    /\ grent' = [open |-> TRUE, pos |-> 0]
    /\ trace' = <<"setgrent">>
    /\ UNCHANGED pwent

\* `i < maxCount && (p = getpwent())` and, when it holds, the body appending
\* item and `++i`.
PwLoop(item) ==
    /\ pc = "loop"
    /\ IF LoopTest(frame.i, frame.maxCount)
       THEN /\ trace' = Append(trace, "getpwent")
            /\ IF pwent.pos < Len(pwdb)
               THEN /\ pwent' = [open |-> TRUE, pos |-> pwent.pos + 1]
                    /\ frame' = [frame EXCEPT !.i = @ + 1, !.result = Append(@, item)]
                    /\ pc' = "loop"
               ELSE /\ pwent' = [pwent EXCEPT !.open = TRUE]
                    /\ pc' = "end"
                    /\ UNCHANGED frame
       ELSE /\ pc' = "end"
            /\ UNCHANGED <<trace, pwent, frame>>
    /\ UNCHANGED <<Env, ret, grent>>

\* The same on the group cursor; lookups are the database calls the body makes.
GrLoop(item, lookups) ==
    /\ pc = "loop"
    /\ IF LoopTest(frame.i, frame.maxCount)
       THEN IF grent.pos < Len(grdb)
            THEN /\ trace' = Append(trace, "getgrent") \o lookups
                 /\ grent' = [open |-> TRUE, pos |-> grent.pos + 1]
                 /\ frame' = [frame EXCEPT !.i = @ + 1, !.result = Append(@, item)]
                 /\ pc' = "loop"
            ELSE /\ trace' = Append(trace, "getgrent")
                 /\ grent' = [grent EXCEPT !.open = TRUE]
                 /\ pc' = "end"
                 /\ UNCHANGED frame
       ELSE /\ pc' = "end"
            /\ UNCHANGED <<trace, grent, frame>>
    /\ UNCHANGED <<Env, ret, pwent>>

\* endpwent() and the return of r.
PwReturn(r) ==
    /\ pc = "end"
    /\ pwent' = ClosedCursor
    /\ trace' = Append(trace, "endpwent")
    /\ ret' = r
    /\ pc' = "idle"
    /\ frame' = NoFrame
    /\ UNCHANGED <<Env, grent>>

\* A return that leaves the group cursor open.
GrReturn_open(r) ==
    /\ pc = "end"
    /\ ret' = r
    /\ pc' = "idle"
    /\ frame' = NoFrame
    /\ UNCHANGED <<Env, pwent, grent, trace>>

\* endgrent() and the return of r.
GrReturn(r) ==
    /\ pc = "end"
    /\ grent' = ClosedCursor
    /\ trace' = Append(trace, "endgrent")
    /\ ret' = r
    /\ pc' = "idle"
    /\ frame' = NoFrame
    /\ UNCHANGED <<Env, pwent>>

\* The record the next getpwent() / getgrent() yields; null at the end.
NextPw == IF pwent.pos < Len(pwdb) THEN <<pwdb[pwent.pos + 1]>> ELSE <<>>
NextGr == IF grent.pos < Len(grdb) THEN <<grdb[grent.pos + 1]>> ELSE <<>>

\* One getpwnam per member of the record: what KUserGroup(g) looks up.
MemberLookups(g) == IF Len(g) = 0 THEN <<>> ELSE [m \in 1..Len(g[1].gr_mem) |-> "getpwnam"]

\* KUser::allUsers(maxCount).
Call_allUsers == \E maxCount \in ListCounts : Enter("allUsers", maxCount) /\ setpwent
Step_allUsers == frame.fn = "allUsers" /\ PwLoop(KUser_passwd(NextPw))
Return_allUsers ==
    /\ frame.fn = "allUsers"
    /\ PwReturn([op |-> "KUser::allUsers", maxCount |-> frame.maxCount, list |-> frame.result])

\* KUser::allUserNames(maxCount).
Call_allUserNames == \E maxCount \in ListCounts : Enter("allUserNames", maxCount) /\ setpwent
Step_allUserNames ==
    /\ frame.fn = "allUserNames"
    /\ PwLoop(IF Len(NextPw) = 0 THEN <<>> ELSE fromLocal8Bit(NextPw[1].pw_name))
Return_allUserNames ==
    /\ frame.fn = "allUserNames"
    /\ PwReturn([op |-> "KUser::allUserNames", maxCount |-> frame.maxCount,
                 list |-> frame.result])

\* KUserGroup::allGroups(maxCount), called by itself.
Call_allGroups == \E maxCount \in ListCounts : Enter("allGroups", maxCount) /\ setgrent
Step_allGroups ==
    /\ frame.fn = "allGroups"
    /\ GrLoop(KUserGroup_group(NextGr), MemberLookups(NextGr))
Return_allGroups ==
    /\ frame.fn = "allGroups"
    /\ frame.outer = "none"
    /\ GrReturn([op |-> "KUserGroup::allGroups", maxCount |-> frame.maxCount,
                 list |-> frame.result])

\* KUserGroup::allGroupNames(maxCount).
Call_allGroupNames == \E maxCount \in ListCounts : Enter("allGroupNames", maxCount) /\ setgrent
Step_allGroupNames ==
    /\ frame.fn = "allGroupNames"
    /\ GrLoop(IF Len(NextGr) = 0 THEN <<>> ELSE fromLocal8Bit(NextGr[1].gr_name), <<>>)
Return_allGroupNames ==
    /\ frame.fn = "allGroupNames"
    /\ GrReturn([op |-> "KUserGroup::allGroupNames", maxCount |-> frame.maxCount,
                 list |-> frame.result])

\* Users groups() / groupNames() are asked about: KUser((const char *)0) and
\* those named "a", "b", "c", "x".
Selves == {KUser_cstr(nm) : nm \in {<<>>, <<<<97>>>>, <<<<98>>>>, <<<<99>>>>, <<<<120>>>>}}

\* KUser::groups(maxCount) on user u: allGroups() with its default maxCount
\* runs first (Step_allGroups), then the loop over what it returned.
Call_KUser_groups ==
    \E u \in Selves, maxCount \in ListCounts :
        /\ pc = "idle"
        /\ ret.op = "none"
        /\ pc' = "loop"
        /\ frame' = [NoFrame EXCEPT !.fn = "allGroups", !.maxCount = UINT_MAX,
                                    !.outer = "groups", !.self = u, !.outerMax = maxCount]
        /\ setgrent
        /\ UNCHANGED <<Env, ret>>
Return_KUser_groups ==
    /\ frame.fn = "allGroups"
    /\ frame.outer = "groups"
    /\ GrReturn([op |-> "KUser::groups", user |-> frame.self, maxCount |-> frame.outerMax,
                 list |-> GroupsLoop(frame.result, frame.self, frame.outerMax, <<>>)])

\* KUser::groupNames(maxCount) on user u.
Call_KUser_groupNames ==
    \E u \in Selves, maxCount \in ListCounts :
        /\ pc = "idle"
        /\ ret.op = "none"
        /\ pc' = "loop"
        /\ frame' = [NoFrame EXCEPT !.fn = "allGroups", !.maxCount = UINT_MAX,
                                    !.outer = "groupNames", !.self = u, !.outerMax = maxCount]
        /\ setgrent
        /\ UNCHANGED <<Env, ret>>
Return_KUser_groupNames ==
    /\ frame.fn = "allGroups"
    /\ frame.outer = "groupNames"
    /\ GrReturn([op |-> "KUser::groupNames", user |-> frame.self,
                 maxCount |-> frame.outerMax,
                 list |-> GroupNamesLoop(frame.result, frame.self, frame.outerMax)])

\* No call made yet, no enumeration running.
InitRest ==
    /\ ret = [op |-> "none"]
    /\ pc = "idle"
    /\ frame = NoFrame
    /\ pwent = ClosedCursor
    /\ grent = ClosedCursor
    /\ trace = <<>>

-----------------------------------------------------------------------------
\* Constructing users and looking names up: every environment, every account
\* database.

InitUser ==
    /\ ruid \in {0, 1000}
    /\ euid \in {0, 1000}
    /\ environ \in [LOGNAME : EnvNames, USER : EnvNames, HOME : EnvHomes]
    /\ codec = "UTF-8"
    /\ pwdb \in Databases(PasswdPool, MaxUsers)
    /\ grdb = <<>>
    /\ InitRest

\* A call that runs to completion in one step: the caller holds its result.
Returns(r) ==
    /\ pc = "idle"
    /\ ret.op = "none"
    /\ ret' = r
    /\ UNCHANGED <<ruid, euid, environ, codec, pwdb, grdb, pc, frame, pwent, grent, trace>>

\* The caller lets go of the result (the value's destructor) before its next
\* call; the record of the call's database accesses goes with it.
Discard ==
    /\ pc = "idle"
    /\ ret.op # "none"
    /\ ret' = [op |-> "none"]
    /\ trace' = <<>>
    /\ UNCHANGED <<ruid, euid, environ, codec, pwdb, grdb, pc, frame, pwent, grent>>

New_KUser_mode ==
    \E mode \in UIDModes :
        Returns([op |-> "KUser(UIDMode)", mode |-> mode, user |-> KUser_mode(mode)])

New_KUser_uid ==
    \E id \in NativeIds :
        Returns([op |-> "KUser(K_UID)", id |-> id, user |-> KUser_uid(id)])

New_KUser_KUserId ==
    \E id \in {Id_default} \cup {Id_native(n) : n \in NativeIds} :
        Returns([op |-> "KUser(KUserId)", id |-> id.id, user |-> KUser_uid(id.id)])

New_KUser_QString ==
    \E name \in QNames :
        Returns([op |-> "KUser(QString)", name |-> name, user |-> KUser_QString(name)])

New_KUser_cstr ==
    \E name \in CNames :
        Returns([op |-> "KUser(const char *)", name |-> name, user |-> KUser_cstr(name)])

New_KUser_passwd ==
    \E p \in {<<>>} \cup {<<r>> : r \in PasswdPool} :
        Returns([op |-> "KUser(const passwd *)", p |-> p, user |-> KUser_passwd(p)])

Call_KUserId_fromName ==
    \E name \in QNames :
        Returns([op |-> "KUserId::fromName", name |-> name, id |-> KUserId_fromName(name)])

NextUser ==
    \/ New_KUser_mode
    \/ New_KUser_uid
    \/ New_KUser_KUserId
    \/ New_KUser_QString
    \/ New_KUser_cstr
    \/ New_KUser_passwd
    \/ Call_KUserId_fromName
    \/ Discard

SpecUser == InitUser /\ [][NextUser]_vars

-----------------------------------------------------------------------------
\* Properties of the constructors.

UserOps ==
    {"KUser(UIDMode)", "KUser(K_UID)", "KUser(KUserId)", "KUser(QString)",
     "KUser(const char *)", "KUser(const passwd *)"}

\* The record KUser(UIDMode) is to settle on: what LOGNAME names if that account
\* has the real uid, else what USER names if that one has, else the account of
\* the real uid; the account of the effective uid when that differs and is asked for.
ModeRecord(mode) ==
    LET Accept(p) == Len(p) > 0 /\ p[1].pw_uid = ruid
        byLogname == getpwnam(qgetenv("LOGNAME"))
        byUser == getpwnam(qgetenv("USER"))
    IN IF mode = "UseEffectiveUID" /\ euid # ruid THEN getpwuid(euid)
       ELSE IF Accept(byLogname) THEN byLogname
       ELSE IF Accept(byUser) THEN byUser
       ELSE getpwuid(ruid)

\* The account record (a pointer) the last constructed user was filled from.
RecordOf ==
    CASE ret.op = "KUser(UIDMode)" -> ModeRecord(ret.mode)
      [] ret.op \in {"KUser(K_UID)", "KUser(KUserId)"} -> getpwuid(ret.id)
      [] ret.op = "KUser(QString)" -> getpwnam(CStr(toLocal8Bit(ret.name)))
      [] ret.op = "KUser(const char *)" ->
            IF Len(ret.name) = 0 THEN <<>> ELSE getpwnam(ret.name[1])
      [] ret.op = "KUser(const passwd *)" -> ret.p
      [] OTHER -> <<>>

\* C2: whatever the constructor, a user with isValid() == false has an empty
\* loginName(), homeDir() and shell() and no property set.
C2_InvalidUserIsEmpty ==
    (ret.op \in UserOps /\ ~KUser_isValid(ret.user)) =>
        /\ ret.user.loginName = <<>>
        /\ ret.user.homeDir = <<>>
        /\ ret.user.shell = <<>>
        /\ DOMAIN ret.user.properties = {}

\* C3: for a name N that resolves in the account database KUserId::fromName(N)
\* is valid and equals KUser(N).userId(); for a name that does not resolve
\* fromName(N) is invalid and KUser(N) is invalid.
C3_FromNameAgreesWithKUser ==
    ret.op = "KUserId::fromName" =>
        LET u == KUser_QString(ret.name)
            resolves == Len(getpwnam(CStr(toLocal8Bit(ret.name)))) > 0
        IN IF resolves
           THEN Id_isValid(ret.id) /\ Id_eq(ret.id, KUser_userId(u))
           ELSE ~Id_isValid(ret.id) /\ ~KUser_isValid(u)

\* C8: KUser(UseRealUserID), and KUser(UseEffectiveUID) when the effective uid
\* is the real one, is the user of the first of LOGNAME's account, USER's
\* account and the real uid's account whose uid is getuid(), so it is invalid
\* or has uid getuid(); with a different effective uid KUser(UseEffectiveUID)
\* is the user of the effective uid's account, whatever LOGNAME and USER say.
C8_ModeResolution ==
    ret.op = "KUser(UIDMode)" =>
        /\ ret.user = fillPasswd(ModeRecord(ret.mode))
        /\ IF ret.mode = "UseEffectiveUID" /\ euid # ruid
           THEN ret.user = KUser_uid(euid)
           ELSE ret.user.uid \in {ruid, InvalidId}

\* C8 witness: LOGNAME names an account of another uid, USER one of the real
\* uid, and the user built is USER's.
C8_Witness ==
    /\ ret.op = "KUser(UIDMode)"
    /\ ret.mode = "UseRealUserID"
    /\ Len(getpwnam(qgetenv("LOGNAME"))) > 0
    /\ getpwnam(qgetenv("LOGNAME"))[1].pw_uid # ruid
    /\ Len(getpwnam(qgetenv("USER"))) > 0
    /\ ret.user.uid = ruid
    /\ ret.user.loginName = fromLocal8Bit(qgetenv("USER"))

\* C9 as stated: a valid user's homeDir() is HOME iff the record's uid is both
\* the real and the effective uid and HOME is set, and pw_dir in every other case.
C9_HomeIffSet ==
    (ret.op \in UserOps /\ KUser_isValid(ret.user)) =>
        LET r == RecordOf[1] IN
        ret.user.homeDir =
            IF r.pw_uid = ruid /\ r.pw_uid = euid /\ Len(environ.HOME) > 0
            THEN fromLocal8Bit(environ.HOME[1])
            ELSE fromLocal8Bit(r.pw_dir)

\* C9 amended: a valid user's homeDir() is HOME iff the record's uid is both the
\* real and the effective uid and HOME is set to a non-empty value, and pw_dir
\* in every other case (HOME unset or empty, or another uid).
C9_HomeIffNonEmpty ==
    (ret.op \in UserOps /\ KUser_isValid(ret.user)) =>
        LET r == RecordOf[1] IN
        ret.user.homeDir =
            IF r.pw_uid = ruid /\ r.pw_uid = euid /\ Len(environ.HOME) > 0
               /\ Len(environ.HOME[1]) > 0
            THEN fromLocal8Bit(environ.HOME[1])
            ELSE fromLocal8Bit(r.pw_dir)

\* C9 witness: the user the process runs as, with HOME set and used in place
\* of a different pw_dir.
C9_Witness ==
    /\ ret.op \in UserOps
    /\ KUser_isValid(ret.user)
    /\ ret.user.uid = ruid
    /\ ruid = euid
    /\ Len(environ.HOME) > 0
    /\ Len(environ.HOME[1]) > 0
    /\ ret.user.homeDir = fromLocal8Bit(environ.HOME[1])
    /\ ret.user.homeDir # fromLocal8Bit(RecordOf[1].pw_dir)

-----------------------------------------------------------------------------
\* Comparing identities and users, and reading a group's members.

\* Names handed to fromName: empty, "a", "x", "g", "zz", "a\0b", U+FFFD.
IdNames == { <<>>, <<97>>, <<120>>, <<103>>, <<122, 122>>, <<97, 0, 98>>, <<65533>> }

\* The ways the tests make an identity: default-constructed, from a native
\* value, from a name.
UserIdPaths ==
    {[how |-> "default", n |-> 0, name |-> <<>>, id |-> Id_default]}
    \cup {[how |-> "native", n |-> n, name |-> <<>>, id |-> Id_native(n)] :
            n \in {0, 1000, InvalidId}}
    \cup {[how |-> "fromName", n |-> 0, name |-> nm, id |-> KUserId_fromName(nm)] :
            nm \in IdNames}

GroupIdPaths ==
    {[how |-> "default", n |-> 0, name |-> <<>>, id |-> Id_default]}
    \cup {[how |-> "native", n |-> n, name |-> <<>>, id |-> Id_native(n)] :
            n \in {0, 100, InvalidId}}
    \cup {[how |-> "fromName", n |-> 0, name |-> nm, id |-> KGroupId_fromName(nm)] :
            nm \in IdNames}

\* Users as callers get them: from a raw record, by name, by uid.
SomeUsers ==
    {KUser_passwd(p) : p \in {<<>>} \cup {<<r>> : r \in PasswdPool}}
    \cup {KUser_QString(nm) : nm \in QNames}
    \cup {KUser_uid(n) : n \in NativeIds}

InitValue ==
    /\ ruid = 0
    /\ euid = 0
    /\ environ = [LOGNAME |-> <<>>, USER |-> <<>>, HOME |-> <<<<47, 104>>>>]
    /\ codec \in {"UTF-8", "ISO-8859-1"}
    /\ \/ pwdb \in Databases(PasswdPool, MaxUsers) /\ grdb = <<>>
       \/ pwdb = <<>> /\ grdb \in Databases(GroupPool, MaxGroups)
    /\ InitRest

Compare_KUserId ==
    \E x \in UserIdPaths, y \in UserIdPaths :
        Returns([op |-> "KUserId::operator==", x |-> x, y |-> y,
                 eq |-> Id_eq(x.id, y.id), ne |-> Id_ne(x.id, y.id),
                 rev |-> Id_eq(y.id, x.id)])

Compare_KGroupId ==
    \E x \in GroupIdPaths, y \in GroupIdPaths :
        Returns([op |-> "KGroupId::operator==", x |-> x, y |-> y,
                 eq |-> Id_eq(x.id, y.id), ne |-> Id_ne(x.id, y.id),
                 rev |-> Id_eq(y.id, x.id)])

Compare_KUser ==
    \E a \in SomeUsers, b \in SomeUsers :
        Returns([op |-> "KUser::operator==", a |-> a, b |-> b,
                 eq |-> KUser_eq(a, b), ne |-> KUser_ne(a, b), rev |-> KUser_eq(b, a)])

Call_KUserGroup_users ==
    \E p \in {<<>>} \cup {<<r>> : r \in GroupPool}, maxCount \in MaxCounts :
        LET g == KUserGroup_group(p) IN
        Returns([op |-> "KUserGroup::users", group |-> g, maxCount |-> maxCount,
                 list |-> KUserGroup_users(g, maxCount)])

\* testKUserId from a uid: KUser kuser(id); KUserId::fromName(kuser.loginName()).
RoundTrip_KUserId ==
    \E n \in NativeIds :
        LET kuser == KUser_uid(Id_native(n).id) IN
        Returns([op |-> "KUserId round trip", id |-> Id_native(n), user |-> kuser,
                 fromStr |-> KUserId_fromName(kuser.loginName)])

\* testKGroupId from a gid: KUserGroup kuserGroup(id);
\* KGroupId::fromName(kuserGroup.name()).
RoundTrip_KGroupId ==
    \E n \in NativeIds :
        LET kuserGroup == KUserGroup_gid(Id_native(n).id) IN
        Returns([op |-> "KGroupId round trip", id |-> Id_native(n), group |-> kuserGroup,
                 fromStr |-> KGroupId_fromName(kuserGroup.name)])

NextValue ==
    \/ Compare_KUserId
    \/ Compare_KGroupId
    \/ Compare_KUser
    \/ Call_KUserGroup_users
    \/ RoundTrip_KUserId
    \/ RoundTrip_KGroupId
    \/ Discard

SpecValue == InitValue /\ [][NextValue]_vars

\* An identity made in a way that gives no valid one: default-constructed, from
\* the native value -1, or from a name the database does not hold.
InvalidPath(x, names) ==
    \/ x.how = "default"
    \/ x.how = "native" /\ x.n = InvalidId
    \/ x.how = "fromName" /\ CStr(toLocal8Bit(x.name)) \notin names

InvalidUserIdPath(x) == InvalidPath(x, {pwdb[i].pw_name : i \in 1..Len(pwdb)})
InvalidGroupIdPath(x) == InvalidPath(x, {grdb[i].gr_name : i \in 1..Len(grdb)})

IdCase(x, y, xInvalid, yInvalid) ==
    /\ xInvalid => ~Id_isValid(x.id)
    /\ yInvalid => ~Id_isValid(y.id)
    /\ (xInvalid /\ yInvalid) => (ret.eq /\ ret.rev /\ ~ret.ne)
    /\ (xInvalid /\ Id_isValid(y.id)) => (~ret.eq /\ ~ret.rev /\ ret.ne)
    /\ (yInvalid /\ Id_isValid(x.id)) => (~ret.eq /\ ~ret.rev /\ ret.ne)

\* C1: identities of one kind that are default-constructed, made from the
\* native value -1 or returned by fromName() for a name not in the database
\* (the empty name too) are all invalid, equal each other, and equal no valid
\* identity in either operand order.
C1_InvalidIdsEqual ==
    /\ ret.op = "KUserId::operator==" =>
          IdCase(ret.x, ret.y, InvalidUserIdPath(ret.x), InvalidUserIdPath(ret.y))
    /\ ret.op = "KGroupId::operator==" =>
          IdCase(ret.x, ret.y, InvalidGroupIdPath(ret.x), InvalidGroupIdPath(ret.y))

\* C1 witness: fromName("") against KUserId(-1), with accounts in the database.
C1_Witness ==
    /\ ret.op = "KUserId::operator=="
    /\ Len(pwdb) > 0
    /\ ret.x.how = "fromName" /\ ret.x.name = <<>>
    /\ ret.y.how = "native" /\ ret.y.n = InvalidId
    /\ ret.eq

\* C4: a == b iff both are valid and have the same uid, whatever their other
\* fields; a != b is its negation; b == a gives the same; an invalid user
\* equals nothing, a copy of itself included.
C4_UserEquality ==
    ret.op = "KUser::operator==" =>
        /\ ret.eq = (ret.a.uid # InvalidId /\ ret.b.uid # InvalidId /\ ret.a.uid = ret.b.uid)
        /\ ret.ne = ~ret.eq
        /\ ret.rev = ret.eq
        /\ ret.a.uid = InvalidId => ~ret.eq

\* C4 witness: two users of one uid that differ in login name, gid and home
\* directory compare equal.
C4_Witness ==
    /\ ret.op = "KUser::operator=="
    /\ ret.a.loginName # ret.b.loginName
    /\ ret.a.gid # ret.b.gid
    /\ ret.a.homeDir # ret.b.homeDir
    /\ ret.eq

\* C5: users(maxCount) is the first min(maxCount, size) stored members, with
\* maxCount read as unsigned: never more than maxCount, all of them for
\* UINT_MAX and for every maxCount from 2^31 on.
C5_UsersPrefix ==
    ret.op = "KUserGroup::users" =>
        LET size == Len(ret.group.users)
            n == IF ULess(ret.maxCount, size) THEN ret.maxCount ELSE size
        IN /\ Len(ret.list) = n
           /\ \A i \in 1..n : ret.list[i] = ret.group.users[i]
           /\ ret.maxCount = UINT_MAX => ret.list = ret.group.users

\* C5 witness: maxCount 2^31 on a group of three members, two of them different.
C5_Witness ==
    /\ ret.op = "KUserGroup::users"
    /\ ret.maxCount = Two31
    /\ Len(ret.group.users) = 3
    /\ ret.group.users[1] # ret.group.users[2]
    /\ ret.list = ret.group.users

-----------------------------------------------------------------------------
\* The list calls over every account and group database.

InitEnum ==
    /\ ruid = 0
    /\ euid = 0
    /\ environ = [LOGNAME |-> <<>>, USER |-> <<>>, HOME |-> <<<<47, 104>>>>]
    /\ codec = "UTF-8"
    /\ pwdb \in Databases(EnumPasswdPool, MaxUsers)
    /\ grdb \in Databases(EnumGroupPool, MaxGroups)
    /\ InitRest

NextEnum ==
    \/ Call_allUsers \/ Step_allUsers \/ Return_allUsers
    \/ Call_allUserNames \/ Step_allUserNames \/ Return_allUserNames
    \/ Call_allGroups \/ Step_allGroups \/ Return_allGroups
    \/ Call_allGroupNames \/ Step_allGroupNames \/ Return_allGroupNames
    \/ Call_KUser_groups \/ Return_KUser_groups
    \/ Call_KUser_groupNames \/ Return_KUser_groupNames
    \/ Discard

SpecEnum == InitEnum /\ [][NextEnum]_vars

-----------------------------------------------------------------------------
\* Properties of the list calls.

UMin(a, b) == IF ULess(a, b) THEN a ELSE b

\* The first n elements of l.
Prefix(l, n) == SubSeq(l, 1, n)

\* The whole databases as the list calls render them.
RECURSIVE UsersOf(_)
UsersOf(db) ==
    IF Len(db) = 0 THEN <<>> ELSE <<KUser_passwd(<<Head(db)>>)>> \o UsersOf(Tail(db))

RECURSIVE UserNamesOf(_)
UserNamesOf(db) ==
    IF Len(db) = 0 THEN <<>> ELSE <<fromLocal8Bit(Head(db).pw_name)>> \o UserNamesOf(Tail(db))

RECURSIVE GroupsOf(_)
GroupsOf(db) ==
    IF Len(db) = 0 THEN <<>> ELSE <<KUserGroup_group(<<Head(db)>>)>> \o GroupsOf(Tail(db))

RECURSIVE DbGroupNamesOf(_)
DbGroupNamesOf(db) ==
    IF Len(db) = 0 THEN <<>>
    ELSE <<fromLocal8Bit(Head(db).gr_name)>> \o DbGroupNamesOf(Tail(db))

\* How often call c occurs in the trace.
Count(c) == Cardinality({i \in 1..Len(trace) : trace[i] = c})

\* C6: allUsers / allUserNames / allGroups / allGroupNames return the first
\* min(maxCount, N) records of their database, in cursor order, each rendered
\* as the call renders a record; the cursor has then yielded exactly those
\* records (none for maxCount == 0, where it is never read), and the default
\* maxCount gives all N.
C6_EnumerationPrefix ==
    /\ ret.op = "KUser::allUsers" =>
          /\ ret.list = Prefix(UsersOf(pwdb), UMin(ret.maxCount, Len(pwdb)))
          /\ Count("getpwent") = UMin(ret.maxCount, Len(pwdb) + 1)
    /\ ret.op = "KUser::allUserNames" =>
          /\ ret.list = Prefix(UserNamesOf(pwdb), UMin(ret.maxCount, Len(pwdb)))
          /\ Count("getpwent") = UMin(ret.maxCount, Len(pwdb) + 1)
    /\ ret.op = "KUserGroup::allGroups" =>
          /\ ret.list = Prefix(GroupsOf(grdb), UMin(ret.maxCount, Len(grdb)))
          /\ Count("getgrent") = UMin(ret.maxCount, Len(grdb) + 1)
    /\ ret.op = "KUserGroup::allGroupNames" =>
          /\ ret.list = Prefix(DbGroupNamesOf(grdb), UMin(ret.maxCount, Len(grdb)))
          /\ Count("getgrent") = UMin(ret.maxCount, Len(grdb) + 1)

\* C6 witness: allGroups(1) on two groups returns the first one, members resolved.
C6_Witness ==
    /\ ret.op = "KUserGroup::allGroups"
    /\ ret.maxCount = 1
    /\ Len(grdb) = 2
    /\ Len(ret.list) = 1
    /\ Len(ret.list[1].users) > 1
    /\ ret.list[1].name = fromLocal8Bit(grdb[1].gr_name)

\* The cursor calls of a list call, and what may come between its open and
\* its close: reads of its own cursor and, for the calls that build
\* KUserGroup objects, the members' lookups in the other database.
OpenOf(fn) == IF fn \in {"allUsers", "allUserNames"} THEN "setpwent" ELSE "setgrent"
CloseOf(fn) == IF fn \in {"allUsers", "allUserNames"} THEN "endpwent" ELSE "endgrent"
Between(fn) ==
    CASE fn \in {"allUsers", "allUserNames"} -> {"getpwent"}
      [] fn = "allGroupNames" -> {"getgrent"}
      [] OTHER -> {"getgrent", "getpwnam"}

\* The list call a returned value came from.
FnOf(op) ==
    CASE op = "KUser::allUsers" -> "allUsers"
      [] op = "KUser::allUserNames" -> "allUserNames"
      [] op = "KUserGroup::allGroupNames" -> "allGroupNames"
      [] OTHER -> "allGroups"

ListOps ==
    {"KUser::allUsers", "KUser::allUserNames", "KUserGroup::allGroups",
     "KUserGroup::allGroupNames", "KUser::groups", "KUser::groupNames"}

\* C7: a list call opens its cursor once, first; reads it only between that
\* open and the close; closes it once, last, on every way out; nothing else
\* touches that database in between; and between calls both cursors are closed.
C7_CursorBracketed ==
    /\ pc = "idle" => (~pwent.open /\ ~grent.open)
    /\ pc # "idle" =>
          /\ Len(trace) >= 1
          /\ trace[1] = OpenOf(frame.fn)
          /\ \A i \in 2..Len(trace) : trace[i] \in Between(frame.fn)
          /\ IF OpenOf(frame.fn) = "setpwent"
             THEN pwent.open /\ ~grent.open
             ELSE grent.open /\ ~pwent.open
    /\ (pc = "idle" /\ ret.op \in ListOps) =>
          /\ Len(trace) >= 2
          /\ trace[1] = OpenOf(FnOf(ret.op))
          /\ trace[Len(trace)] = CloseOf(FnOf(ret.op))
          /\ \A i \in 2..(Len(trace) - 1) : trace[i] \in Between(FnOf(ret.op))

\* C7 witness: groups() has returned after reading two groups and resolving
\* their members.
C7_Witness ==
    /\ pc = "idle"
    /\ ret.op = "KUser::groups"
    /\ Count("getgrent") = 3
    /\ Count("getpwnam") >= 2
    /\ Count("setgrent") = 1
    /\ Count("endgrent") = 1

\* The groups of the database, in scan order, that list a member equal to u.
RECURSIVE GroupsWith(_, _)
GroupsWith(db, u) ==
    IF Len(db) = 0 THEN <<>>
    ELSE LET g == KUserGroup_group(<<Head(db)>>)
             listed == u.uid # InvalidId /\ \E i \in 1..Len(g.users) : g.users[i].uid = u.uid
         IN (IF listed THEN <<g>> ELSE <<>>) \o GroupsWith(Tail(db), u)

\* C10: u.groups(maxCount) is the first min(maxCount, k) of the k groups, in
\* scan order over the whole group database, whose members include a user
\* equal to u; u.groupNames(maxCount) is the names of those; an invalid u gets
\* the empty list.
C10_GroupsOfUser ==
    /\ ret.op = "KUser::groups" =>
          LET with == GroupsWith(grdb, ret.user) IN
          /\ ret.list = Prefix(with, UMin(ret.maxCount, Len(with)))
          /\ ~KUser_isValid(ret.user) => ret.list = <<>>
    /\ ret.op = "KUser::groupNames" =>
          LET with == GroupsWith(grdb, ret.user) IN
          /\ ret.list = GroupNamesOf(Prefix(with, UMin(ret.maxCount, Len(with))))
          /\ ~KUser_isValid(ret.user) => ret.list = <<>>

\* C10 witness: a user listed in two groups asks for one and gets the first.
C10_Witness ==
    /\ ret.op = "KUser::groups"
    /\ ret.maxCount = 1
    /\ Len(GroupsWith(grdb, ret.user)) = 2
    /\ ret.list = <<KUserGroup_group(<<grdb[1]>>)>>

-----------------------------------------------------------------------------
\* The round trip through the name.

\* C11: for every uid U that resolves in the account database, KUser(KUserId(U))
\* is valid, has userId() == U and a non-empty loginName(), and
\* KUserId::fromName of that login name is valid and equals U; for every gid G
\* that resolves in the group database, KUserGroup(KGroupId(G)).groupId() == G
\* and KGroupId::fromName of the group's name() equals G.
C11_NameRoundTrip ==
    /\ (ret.op = "KUserId round trip" /\ Len(getpwuid(ret.id.id)) > 0) =>
          /\ KUser_isValid(ret.user)
          /\ Id_eq(KUser_userId(ret.user), ret.id)
          /\ Len(ret.user.loginName) > 0
          /\ Id_isValid(ret.fromStr)
          /\ Id_eq(ret.fromStr, ret.id)
    /\ (ret.op = "KGroupId round trip" /\ Len(getgrgid(ret.id.id)) > 0) =>
          /\ Id_eq([id |-> ret.group.gid], ret.id)
          /\ Id_eq(ret.fromStr, ret.id)

====
